---- MODULE Spec2Model ----
(***************************************************************************)
(* Model of the retrieval pipeline of ai-dial-rag-advanced:                *)
(*   TextProcessor._truncate_table / process_text_file / search            *)
(*   DialEmbeddingsClient.get_embeddings                                   *)
(*   MicrowaveRAG.run_console_chat (the retrieve call)                     *)
(* The "vectors" table lives in PostgreSQL; every client works through     *)
(* psycopg2 connections (autocommit off, READ COMMITTED).  Texts are       *)
(* sequences of one-character strings, vectors are sequences of integers.  *)
(***************************************************************************)
EXTENDS Integers, Sequences, FiniteSets, TLC

\* Number of process_text_file / search calls started in a behaviour of the
\* single-threaded program (Spec) and of two concurrent callers (SpecConc).
MaxCalls == 3
MaxConcCalls == 2

\* Callers of one TextProcessor each, working against the same database.
Procs == {1, 2}

VARIABLES
    store,            \* committed rows of table "vectors", in heap order
    txlog,            \* txlog[x]: number of chunks transaction x set out to insert
    ncalls,           \* calls started so far
    pc,               \* pc[p]: where caller p is inside its call
    args,             \* args[p]: arguments of the current (or last) call
    chunks,           \* local `chunks` of process_text_file
    embeddings_dict,  \* local `embeddings_dict` / `request_embedding_dict`
    index,            \* loop variable of the insert loop
    pending,          \* rows inserted by p's open transaction, not yet committed
    open,             \* connections of p that were opened and not closed
    outcome,          \* how p's last call ended: returned value or raised error
    trace,            \* per call: statements sent, gateway calls made,
                      \* id of its insert transaction
    pre               \* the table as it was when p's call started

vars == <<store, txlog, ncalls, pc, args, chunks, embeddings_dict, index,
          pending, open, outcome, trace, pre>>

locals == <<chunks, embeddings_dict, index>>

----------------------------------------------------------------------------
\* Files the callers may name; "missing.txt" does not exist.
FileNames == {"a.txt", "b.txt", "missing.txt"}

FileExists(file_name) == file_name \in {"a.txt", "b.txt"}

FileContent(file_name) ==
    IF file_name = "a.txt" THEN <<"A", "B", "C", "D">> ELSE <<"B", "A", "A">>

Min(a, b) == IF a < b THEN a ELSE b

\* task.utils.text.chunk_text: windows of chunk_size characters whose starts
\* advance by chunk_size - overlap; the last window may be shorter.
ValidChunking(chunk_size, overlap) ==
    chunk_size > 0 /\ overlap >= 0 /\ overlap < chunk_size

RECURSIVE Windows(_, _, _, _)
Windows(text, start, chunk_size, overlap) ==
    IF start >= Len(text) THEN <<>>
    ELSE LET end == Min(start + chunk_size, Len(text))
         IN  <<SubSeq(text, start + 1, end)>> \o
             (IF end = Len(text) THEN <<>>
              ELSE Windows(text, start + chunk_size - overlap, chunk_size, overlap))

chunk_text(text, chunk_size, overlap) == Windows(text, 0, chunk_size, overlap)

----------------------------------------------------------------------------
\* The embedding model behind the gateway: a fixed function of the text and
\* of the requested dimensionality.
CharVec(c) ==
    IF c = "A" THEN <<1, 0>> ELSE IF c = "B" THEN <<0, 1>> ELSE <<1, 1>>

RECURSIVE SumComp(_, _)
SumComp(text, i) ==
    IF text = <<>> THEN 0 ELSE CharVec(Head(text))[i] + SumComp(Tail(text), i)

EmbedModel(text, dimensions) == [i \in 1..dimensions |-> SumComp(text, i)]

\* Response of the embeddings endpoint for input_list: the "data" items, as
\* a map index -> embedding, over the index set `present` the service
\* chose to answer for.  Indices are 0-based as in the JSON response.
get_embeddings(input_list, dimensions, present) ==
    [i \in present |-> EmbedModel(input_list[i + 1], dimensions)]

\* The index sets a response may carry: all of them, or all but one.
Responses(n) == {0..(n - 1)} \cup {(0..(n - 1)) \ {k} : k \in 0..(n - 1)}

----------------------------------------------------------------------------
\* str(x) of a component, and the text "[" + ",".join(map(str, v)) + "]"
\* as a sequence of tokens.
RECURSIVE Join(_)
Join(v) ==
    IF v = <<>> THEN <<>>
    ELSE IF Len(v) = 1 THEN <<ToString(v[1])>>
    ELSE <<ToString(v[1]), ",">> \o Join(Tail(v))

FormatVector(v) == <<"[">> \o Join(v) \o <<"]">>

\* The "::vector" cast of pgvector: the numbers between the brackets.
Numbers == 0..9
ParseNumber(tok) == CHOOSE n \in Numbers : ToString(n) = tok

CastVector(str) ==
    LET inner == SubSeq(str, 2, Len(str) - 1)
        n     == (Len(inner) + 1) \div 2
    IN  [i \in 1..n |-> ParseNumber(inner[2 * i - 1])]

\* Width of the "embedding" column: the table was created for the vectors
\* the embedding model produces at its full dimensionality.
VecDim == Len(CharVec("A"))

\* A value is accepted by the column only if it has the column's width.
FitsColumn(str) == Len(CastVector(str)) = VecDim

----------------------------------------------------------------------------
\* Distances of pgvector, on an integer scale that keeps their order:
\* "<->" is the L2 distance (here its square), "<=>" is 1 - cosine similarity
\* (here 100 - 100 * sign(s) * s^2, truncated).
RECURSIVE DotUpTo(_, _, _)
DotUpTo(a, b, n) == IF n = 0 THEN 0 ELSE a[n] * b[n] + DotUpTo(a, b, n - 1)

Dot(a, b) == DotUpTo(a, b, Len(a))

L2(a, b) == Dot(a, a) - 2 * Dot(a, b) + Dot(b, b)

Cosine(a, b) ==
    LET d  == Dot(a, b)
        sq == (100 * d * d) \div (Dot(a, a) * Dot(b, b))
    IN  IF d >= 0 THEN 100 - sq ELSE 100 + sq

SearchModes == {"euclidean", "cosine"}

Distance(search_mode, a, b) ==
    IF search_mode = "euclidean" THEN L2(a, b) ELSE Cosine(a, b)

\* A WHERE clause written with <= instead of <.
PassingInclusive(st, search_mode, q, threshold) ==
    {i \in 1..Len(st) : Distance(search_mode, st[i].embedding, q) <= threshold}

\* Rows the WHERE clause keeps, by position in the table.
Passing(st, search_mode, q, threshold) ==
    {i \in 1..Len(st) : Distance(search_mode, st[i].embedding, q) < threshold}

\* ORDER BY distance: every order of the kept rows that is ascending in
\* distance (rows at equal distance come in any order).
RECURSIVE Orders(_, _, _, _)
Orders(S, st, search_mode, q) ==
    IF S = {} THEN {<<>>}
    ELSE UNION {{<<i>> \o t : t \in Orders(S \ {i}, st, search_mode, q)} :
                i \in {j \in S : \A k \in S :
                          Distance(search_mode, st[j].embedding, q)
                            <= Distance(search_mode, st[k].embedding, q)}}

\* LIMIT n.
Limit(s, n) == SubSeq(s, 1, Min(n, Len(s)))

\* The rows cursor.fetchall() may return for the SELECT of search:
\* RealDictRow values with the columns text and distance.
Select(st, search_mode, q, threshold, top_k) ==
    {Limit([j \in 1..Len(o) |->
               [text     |-> st[o[j]].text,
                distance |-> Distance(search_mode, st[o[j]].embedding, q)]],
           top_k) :
        o \in Orders(Passing(st, search_mode, q, threshold), st, search_mode, q)}

----------------------------------------------------------------------------
\* Inputs of the calls: the well-formed ones, and each ill-formed argument
\* together with well-formed others (an argument that makes the call raise
\* keeps the arguments after it from ever being read).
Requests   == {<<"C">>}
TopKs      == {0, 1, 2}
Thresholds == {0, 2}

ProcessTextFileArgs(file_name, chunk_size, overlap, dimensions, truncate_table) ==
    [op |-> "process_text_file", file_name |-> file_name,
     chunk_size |-> chunk_size, overlap |-> overlap,
     dimensions |-> dimensions, truncate_table |-> truncate_table]

ProcessTextFileCalls ==
    {ProcessTextFileArgs(f, 2, 1, VecDim, t) : f \in FileNames, t \in BOOLEAN}
    \cup {ProcessTextFileArgs("a.txt", 1, 1, VecDim, t) : t \in BOOLEAN}
    \cup {ProcessTextFileArgs("a.txt", 0, 0, VecDim, t) : t \in BOOLEAN}
    \cup {ProcessTextFileArgs("a.txt", 2, 1, VecDim - 1, t) : t \in BOOLEAN}

SearchArgs(search_mode, user_request, top_k, min_score_threshold, dimensions) ==
    [op |-> "search", search_mode |-> search_mode,
     user_request |-> user_request, top_k |-> top_k,
     min_score_threshold |-> min_score_threshold, dimensions |-> dimensions]

SearchCalls ==
    {SearchArgs(m, r, k, th, VecDim) :
        m \in SearchModes, r \in Requests, k \in TopKs, th \in Thresholds}
    \cup {SearchArgs("euclidean", r, -1, 2, VecDim) : r \in Requests}
    \cup {SearchArgs("euclidean", r, 1, 2, 0) : r \in Requests}
    \cup {SearchArgs("euclidean", r, 1, 2, VecDim - 1) : r \in Requests}

\* A row that was in the table before any call of this model.
PriorRow == [text |-> <<"Z">>, embedding |-> <<3, 1>>, xmin |-> 0]

NoArgs    == [op |-> "none"]
NoOutcome == [status |-> "none", error |-> "", result |-> <<>>, seen |-> <<>>]
NoTrace   == [gateway |-> 0, stmts |-> 0, inserts |-> 0, truncated |-> FALSE,
              sparse |-> FALSE, xid |-> 0]

Returned(result, seen) ==
    [status |-> "returned", error |-> "", result |-> result, seen |-> seen]
Raised(error) ==
    [status |-> "raised", error |-> error, result |-> <<>>, seen |-> <<>>]

Init ==
    /\ store \in {<<>>, <<PriorRow>>}
    /\ txlog = <<>>
    /\ ncalls = 0
    /\ pc = [p \in Procs |-> "idle"]
    /\ args = [p \in Procs |-> NoArgs]
    /\ chunks = [p \in Procs |-> <<>>]
    /\ embeddings_dict = [p \in Procs |-> <<>>]
    /\ index = [p \in Procs |-> 0]
    /\ pending = [p \in Procs |-> <<>>]
    /\ open = [p \in Procs |-> 0]
    /\ outcome = [p \in Procs |-> NoOutcome]
    /\ trace = [p \in Procs |-> NoTrace]
    /\ pre = [p \in Procs |-> store]

----------------------------------------------------------------------------
\* Effects on the database, as psycopg2 and PostgreSQL carry them out.

\* A TRUNCATE that is never committed.
TruncateNothing(st) == st

\* TRUNCATE TABLE vectors, committed.
TruncateTable(st) == <<>>

\* The INSERT on a connection in autocommit mode: the row is in the table at
\* once.
ExecuteInsertAutocommit(st, pend, row) ==
    [store |-> Append(st, row), pending |-> pend]

\* The INSERT putting its row before the rows already inserted.
ExecuteInsertFront(st, pend, row) == [store |-> st, pending |-> <<row>> \o pend]

\* cursor.execute("INSERT ...") inside the open transaction of a connection:
\* the row is the transaction's own until it commits.
ExecuteInsert(st, pend, row) == [store |-> st, pending |-> Append(pend, row)]

\* A commit that leaves only the transaction's rows in the table.
CommitReplacing(st, pend) == pend

\* conn.commit(): the transaction's rows are appended to the table.
Commit(st, pend) == st \o pend

\* An exit by exception that commits what was inserted so far.
RollbackCommits(st, pend) == st \o pend

\* Leaving `with conn:` by an exception: the transaction is rolled back.
Rollback(st, pend) == st

\* Leaving `with self._get_connection() as conn:` ends the transaction and
\* leaves the connection open, n being the connections open inside the block.
AfterWith(n) == n

\* A caller holds a row lock on the table while its transaction has rows.
HoldsLock(q) == pending[q] # <<>>

\* The locals of a call are gone once it has returned or raised.
Forget(p) ==
    /\ chunks' = [chunks EXCEPT ![p] = <<>>]
    /\ embeddings_dict' = [embeddings_dict EXCEPT ![p] = <<>>]
    /\ index' = [index EXCEPT ![p] = 0]

\* The call of p ends by raising `error`; its transaction is rolled back.
Raise(p, error) ==
    /\ pc' = [pc EXCEPT ![p] = "idle"]
    /\ outcome' = [outcome EXCEPT ![p] = Raised(error)]
    /\ store' = Rollback(store, pending[p])
    /\ pending' = [pending EXCEPT ![p] = <<>>]
    /\ Forget(p)

\* Statements sent to the server by the call of p.
Sent(p, stmts, inserts) ==
    [trace EXCEPT ![p].stmts = @ + stmts, ![p].inserts = @ + inserts]

\* Start of a call: the bookkeeping of the previous call is reset.
Begin(p) ==
    /\ ncalls' = ncalls + 1
    /\ trace' = [trace EXCEPT ![p] = NoTrace]
    /\ pre' = [pre EXCEPT ![p] = store]
    /\ outcome' = [outcome EXCEPT ![p] = NoOutcome]

----------------------------------------------------------------------------
\* process_text_file(file_name, chunk_size, overlap, dimensions, truncate_table)

CallProcessTextFile(p, calls, limit) ==
    /\ pc[p] = "idle"
    /\ ncalls < limit
    /\ \E call \in calls :
          /\ args' = [args EXCEPT ![p] = call]
          /\ pc' = [pc EXCEPT ![p] =
                      IF call.truncate_table THEN "truncate" ELSE "read"]
    /\ Begin(p)
    /\ UNCHANGED <<store, txlog, pending, open, locals>>

\* _truncate_table("vectors"): connect, TRUNCATE, commit.  TRUNCATE waits
\* for the transactions that hold rows of the table.
Truncate(p) ==
    /\ pc[p] = "truncate"
    /\ \A q \in Procs \ {p} : ~HoldsLock(q)
    /\ store' = TruncateTable(store)
    /\ open' = [open EXCEPT ![p] = AfterWith(@ + 1)]
    /\ trace' = [Sent(p, 1, 0) EXCEPT ![p].truncated = TRUE]
    /\ pc' = [pc EXCEPT ![p] = "read"]
    /\ UNCHANGED <<txlog, ncalls, args, locals, pending, outcome, pre>>

\* open(file_name) and file.read()
ReadFile(p) ==
    /\ pc[p] = "read"
    /\ IF FileExists(args[p].file_name)
       THEN /\ pc' = [pc EXCEPT ![p] = "chunk"]
            /\ UNCHANGED <<store, pending, outcome, locals>>
       ELSE Raise(p, "FileNotFoundError")
    /\ UNCHANGED <<txlog, ncalls, args, open, trace, pre>>

\* chunks = chunk_text(content, chunk_size, overlap)
Chunk(p) ==
    /\ pc[p] = "chunk"
    /\ IF ValidChunking(args[p].chunk_size, args[p].overlap)
       THEN /\ chunks' = [chunks EXCEPT ![p] =
                            chunk_text(FileContent(args[p].file_name),
                                       args[p].chunk_size, args[p].overlap)]
            /\ pc' = [pc EXCEPT ![p] = "embed"]
            /\ UNCHANGED <<store, pending, outcome,
                           embeddings_dict, index>>
       ELSE Raise(p, "ConfigurationError")
    /\ UNCHANGED <<txlog, ncalls, args, open, trace, pre>>

\* embeddings_dict = self.embeddings_client.get_embeddings(chunks, dimensions)
Embed(p) ==
    /\ pc[p] = "embed"
    /\ args[p].dimensions > 0
    /\ \E present \in Responses(Len(chunks[p])) :
          /\ embeddings_dict' = [embeddings_dict EXCEPT ![p] =
                get_embeddings(chunks[p], args[p].dimensions, present)]
          /\ trace' = [trace EXCEPT ![p].gateway = @ + 1,
                                    ![p].sparse = (present # 0..(Len(chunks[p]) - 1))]
    /\ pc' = [pc EXCEPT ![p] = "connect"]
    /\ UNCHANGED <<store, txlog, ncalls, args, chunks, index, pending, open,
                   outcome, pre>>

\* requests.post(...) answered with an error status: raise_for_status()
\* raises.
GatewayFail(p) ==
    /\ pc[p] \in {"embed", "s_embed"}
    /\ trace' = [trace EXCEPT ![p].gateway = @ + 1]
    /\ Raise(p, "HTTPError")
    /\ UNCHANGED <<txlog, ncalls, args, open, pre>>

\* with self._get_connection() as conn: with conn.cursor() as cursor:
InsertConnect(p) ==
    /\ pc[p] = "connect"
    /\ open' = [open EXCEPT ![p] = @ + 1]
    /\ txlog' = Append(txlog, Len(chunks[p]))
    /\ trace' = [trace EXCEPT ![p].xid = Len(txlog) + 1]
    /\ index' = [index EXCEPT ![p] = 0]
    /\ pc' = [pc EXCEPT ![p] = "insert"]
    /\ UNCHANGED <<store, ncalls, args, chunks, embeddings_dict, pending,
                   outcome, pre>>

\* One turn of `for index, chunk in enumerate(chunks)`.
InsertRow(p) ==
    /\ pc[p] = "insert"
    /\ index[p] < Len(chunks[p])
    /\ IF index[p] \notin DOMAIN embeddings_dict[p]
       THEN /\ Raise(p, "KeyError")
            /\ UNCHANGED trace
       ELSE LET embedding_str == FormatVector(embeddings_dict[p][index[p]])
                row == [text      |-> chunks[p][index[p] + 1],
                        embedding |-> CastVector(embedding_str),
                        xmin      |-> trace[p].xid]
                done == ExecuteInsert(store, pending[p], row)
            IN  IF FitsColumn(embedding_str)
                THEN /\ store' = done.store
                     /\ pending' = [pending EXCEPT ![p] = done.pending]
                     /\ index' = [index EXCEPT ![p] = @ + 1]
                     /\ trace' = Sent(p, 1, 1)
                     /\ UNCHANGED <<pc, outcome, chunks, embeddings_dict>>
                ELSE /\ Raise(p, "DataError")
                     /\ trace' = Sent(p, 1, 1)
    /\ open' = [open EXCEPT ![p] = IF pc'[p] = "idle" THEN AfterWith(@) ELSE @]
    /\ UNCHANGED <<txlog, ncalls, args, pre>>

\* conn.commit() after the loop, then the end of the with block.
InsertCommit(p) ==
    /\ pc[p] = "insert"
    /\ index[p] = Len(chunks[p])
    /\ store' = Commit(store, pending[p])
    /\ pending' = [pending EXCEPT ![p] = <<>>]
    /\ open' = [open EXCEPT ![p] = AfterWith(@)]
    /\ pc' = [pc EXCEPT ![p] = "idle"]
    /\ outcome' = [outcome EXCEPT ![p] = Returned(<<>>, <<>>)]
    /\ Forget(p)
    /\ UNCHANGED <<txlog, ncalls, args, trace, pre>>

\* psycopg2.connect(...) fails: no connection, no statement.
ConnectFail(p) ==
    /\ pc[p] \in {"truncate", "connect", "s_query"}
    /\ Raise(p, "OperationalError")
    /\ UNCHANGED <<txlog, ncalls, args, open, trace, pre>>

\* The server goes away while the insert transaction is open: the INSERT or
\* the commit raises, nothing of the transaction is kept.
ExecuteFail(p) ==
    /\ pc[p] = "insert"
    /\ trace' = Sent(p, 1, 0)
    /\ Raise(p, "OperationalError")
    /\ open' = [open EXCEPT ![p] = AfterWith(@)]
    /\ UNCHANGED <<txlog, ncalls, args, pre>>

----------------------------------------------------------------------------
\* search(search_mode, user_request, top_k, min_score_threshold, dimensions)

SearchParams ==
    {"search_mode", "user_request", "top_k", "min_score_threshold", "dimensions"}

CallSearch(p, calls, limit) ==
    /\ pc[p] = "idle"
    /\ ncalls < limit
    /\ \E call \in calls : args' = [args EXCEPT ![p] = call]
    /\ pc' = [pc EXCEPT ![p] = "s_embed"]
    /\ Begin(p)
    /\ UNCHANGED <<store, txlog, pending, open, locals>>

\* The retrieve step of run_console_chat: search called with keyword
\* arguments.  Python binds keywords by name before the body runs and raises
\* TypeError for a keyword the function does not have.
ConsoleKeywords(user_input) ==
    [search_mode |-> "euclidean", user_request |-> user_input, top_k |-> 5,
     score_threshold |-> 1, dimensions |-> VecDim]

ConsoleRetrieve(p, limit) ==
    /\ pc[p] = "idle"
    /\ ncalls < limit
    /\ ncalls' = ncalls + 1
    /\ trace' = [trace EXCEPT ![p] = NoTrace]
    /\ pre' = [pre EXCEPT ![p] = store]
    /\ \E user_input \in Requests :
          LET kw == ConsoleKeywords(user_input)
          IN  /\ args' = [args EXCEPT ![p] = kw @@ [op |-> "console"]]
              /\ IF DOMAIN kw = SearchParams
                 THEN /\ pc' = [pc EXCEPT ![p] = "s_embed"]
                      /\ outcome' = [outcome EXCEPT ![p] = NoOutcome]
                 ELSE /\ pc' = pc
                      /\ outcome' = [outcome EXCEPT ![p] = Raised("TypeError")]
    /\ UNCHANGED <<store, txlog, pending, open, locals>>

\* request_embedding_dict = get_embeddings([user_request], dimensions)
\* request_embedding_vector = request_embedding_dict[0]
SearchEmbed(p) ==
    /\ pc[p] = "s_embed"
    /\ args[p].dimensions > 0
    /\ \E present \in Responses(1) :
          LET dict == get_embeddings(<<args[p].user_request>>,
                                     args[p].dimensions, present)
          IN  /\ trace' = [trace EXCEPT ![p].gateway = @ + 1,
                                        ![p].sparse = (present # {0})]
              /\ IF 0 \in DOMAIN dict
                 THEN /\ embeddings_dict' = [embeddings_dict EXCEPT ![p] = dict]
                      /\ pc' = [pc EXCEPT ![p] = "s_query"]
                      /\ UNCHANGED <<store, pending, outcome,
                                     chunks, index>>
                 ELSE Raise(p, "KeyError")
    /\ UNCHANGED <<txlog, ncalls, args, open, pre>>

\* The SELECT of search and cursor.fetchall().  A negative LIMIT is refused
\* by the server; vectors of different widths are refused when the distance
\* to a row is computed.
QueryRefused(st, q, top_k) ==
    top_k < 0 \/ (st # <<>> /\ Len(q) # VecDim)

SearchQuery(p) ==
    /\ pc[p] = "s_query"
    /\ open' = [open EXCEPT ![p] = AfterWith(@ + 1)]
    /\ trace' = Sent(p, 1, 0)
    /\ LET request_embedding_str == FormatVector(embeddings_dict[p][0])
           q == CastVector(request_embedding_str)
       IN  IF QueryRefused(store, q, args[p].top_k)
           THEN Raise(p, "DataError")
           ELSE /\ \E results \in Select(store, args[p].search_mode, q,
                                         args[p].min_score_threshold,
                                         args[p].top_k) :
                      outcome' = [outcome EXCEPT ![p] = Returned(results, store)]
                /\ pc' = [pc EXCEPT ![p] = "idle"]
                /\ store' = Commit(store, pending[p])
                /\ Forget(p)
                /\ UNCHANGED pending
    /\ UNCHANGED <<txlog, ncalls, args, pre>>

\* The interpreter finalizes connection objects nothing refers to any more,
\* which closes them; when it does so is not fixed by the program (here: at
\* some moment between two calls, or never).
Finalize(p) ==
    /\ pc[p] = "idle"
    /\ open[p] > 0
    /\ open' = [open EXCEPT ![p] = 0]
    /\ UNCHANGED <<store, txlog, ncalls, pc, args, locals, pending, outcome,
                   trace, pre>>

----------------------------------------------------------------------------
\* The steps a caller takes inside a call.
Step(p) ==
    \/ Truncate(p)
    \/ ReadFile(p)
    \/ Chunk(p)
    \/ Embed(p)
    \/ GatewayFail(p)
    \/ InsertConnect(p)
    \/ InsertRow(p)
    \/ InsertCommit(p)
    \/ ConnectFail(p)
    \/ ExecuteFail(p)
    \/ SearchEmbed(p)
    \/ SearchQuery(p)

\* The program as written: one thread, one call at a time.
Main == CHOOSE p \in Procs : \A q \in Procs : p <= q

Next ==
    \/ CallProcessTextFile(Main, ProcessTextFileCalls, MaxCalls)
    \/ CallSearch(Main, SearchCalls, MaxCalls)
    \/ ConsoleRetrieve(Main, MaxCalls)
    \/ Step(Main)
    \/ Finalize(Main)

Spec == Init /\ [][Next]_vars

\* Two callers working against the same table at the same time, each with
\* well-formed arguments.
WellFormedIngests ==
    {c \in ProcessTextFileCalls :
        /\ FileExists(c.file_name)
        /\ ValidChunking(c.chunk_size, c.overlap)
        /\ c.dimensions = VecDim}

WellFormedSearches ==
    {c \in SearchCalls :
        c.dimensions = VecDim /\ c.top_k > 0 /\ c.min_score_threshold > 0}

NextConc ==
    \E p \in Procs :
        \/ CallProcessTextFile(p, WellFormedIngests, MaxConcCalls)
        \/ CallSearch(p, WellFormedSearches, MaxConcCalls)
        \/ Step(p)

SpecConc == Init /\ [][NextConc]_vars

----------------------------------------------------------------------------
\* Vocabulary of the properties.

IsPrefix(s, t) == Len(s) <= Len(t) /\ SubSeq(t, 1, Len(s)) = s

\* Rows of the table written by transaction x.
RowsBy(st, x) == {i \in 1..Len(st) : st[i].xmin = x}

IsIngest(p) == args[p].op = "process_text_file"
IsSearch(p) == args[p].op = "search"
Ended(p) == pc[p] = "idle" /\ outcome[p].status # "none"
HasReturned(p) == pc[p] = "idle" /\ outcome[p].status = "returned"
HasRaised(p) == pc[p] = "idle" /\ outcome[p].status = "raised"

\* One row per chunk of the document named by the arguments a, in chunk
\* order, each with the vector of its chunk, written by transaction x.
DocumentRows(a, x) ==
    LET cs == chunk_text(FileContent(a.file_name), a.chunk_size, a.overlap)
    IN  [i \in 1..Len(cs) |->
            [text |-> cs[i], embedding |-> EmbedModel(cs[i], a.dimensions),
             xmin |-> x]]

\* C1: the rows of one ingest call are visible to other connections all
\* together or not at all: the table never holds some but not all rows of a
\* transaction, holds none of them while the call is still inserting, and
\* holds none of them after the call has raised.
C1_InsertAtomic ==
    /\ \A x \in 1..Len(txlog) :
          Cardinality(RowsBy(store, x)) \in {0, txlog[x]}
    /\ \A p \in Procs :
          (IsIngest(p) /\ trace[p].xid # 0 /\ (pc[p] = "insert" \/ HasRaised(p)))
              => RowsBy(store, trace[p].xid) = {}

\* A caller has inserted some but not all of its rows while another caller
\* is about to run its SELECT.
C1_Witness ==
    \E p, q \in Procs :
        /\ p # q
        /\ pc[p] = "insert"
        /\ 0 < Len(pending[p]) /\ Len(pending[p]) < Len(chunks[p])
        /\ pc[q] = "s_query"

\* C2: when the embedding map lacks an index of the document, no INSERT is
\* sent for any chunk, no row of the call is in the table, and the call
\* ends by raising EmbeddingUnavailable.
C2_SparseMapFailsFast ==
    \A p \in Procs :
        (IsIngest(p) /\ trace[p].sparse) =>
            /\ trace[p].inserts = 0
            /\ trace[p].xid # 0 => RowsBy(store, trace[p].xid) = {}
            /\ Ended(p) => (outcome[p].status = "raised"
                            /\ outcome[p].error = "EmbeddingUnavailable")

\* C3: after process_text_file with truncate_table = TRUE has returned, the
\* table is exactly the rows of the document: one per chunk, in chunk order,
\* each with its chunk's vector, and nothing from before the call.
C3_TruncatingIngestResult ==
    \A p \in Procs :
        (IsIngest(p) /\ args[p].truncate_table /\ HasReturned(p)) =>
            store = DocumentRows(args[p], trace[p].xid)

C3_Witness ==
    \E p \in Procs :
        /\ IsIngest(p) /\ args[p].truncate_table /\ HasReturned(p)
        /\ pre[p] # <<>>
        /\ Len(store) = 3

\* r is what the SELECT of search must give on table st with arguments a.
SearchResultExact(r, st, a) ==
    LET q    == EmbedModel(a.user_request, a.dimensions)
        d(i) == Distance(a.search_mode, st[i].embedding, q)
        pass == {i \in 1..Len(st) : d(i) < a.min_score_threshold}
    IN  /\ \A i, j \in 1..Len(r) : i < j => r[i].distance <= r[j].distance
        /\ Len(r) <= a.top_k
        /\ \A i \in 1..Len(r) : r[i].distance < a.min_score_threshold
        /\ Len(r) = Min(a.top_k, Cardinality(pass))
        /\ \E f \in [1..Len(r) -> 1..Len(st)] :
              /\ \A i, j \in 1..Len(r) : i # j => f[i] # f[j]
              /\ \A i \in 1..Len(r) :
                    /\ f[i] \in pass
                    /\ r[i].text = st[f[i]].text
                    /\ r[i].distance = d(f[i])
                    /\ \A k \in pass \ {f[j] : j \in 1..Len(r)} :
                          r[i].distance <= d(k)

\* C4: what search returns is sorted by ascending distance, is no longer
\* than top_k, holds only rows closer than the threshold, and is the first
\* top_k of the rows that pass the threshold: it has min(top_k, number of
\* passing rows) elements, each a row of the table with its distance, and no
\* passing row left out is closer than a returned one.
C4_SearchResult ==
    \A p \in Procs :
        (IsSearch(p) /\ HasReturned(p)) =>
            SearchResultExact(outcome[p].result, outcome[p].seen, args[p])

\* Fewer rows pass the threshold than top_k asks for, although the table
\* holds enough rows: the result is the shorter list.
C4_Witness ==
    \E p \in Procs :
        /\ IsSearch(p) /\ HasReturned(p)
        /\ Len(outcome[p].seen) >= args[p].top_k
        /\ Len(outcome[p].result) = 1
        /\ args[p].top_k = 2

\* C5: search returns context strings only: each element carries the text
\* and nothing else, and the call made by the console loop returns such a
\* sequence.
C5_ReturnsTextsOnly ==
    \A p \in Procs :
        /\ (args[p].op \in {"search", "console"} /\ HasReturned(p)) =>
              \A i \in 1..Len(outcome[p].result) :
                  DOMAIN outcome[p].result[i] = {"text"}
        /\ (args[p].op = "console" /\ pc[p] = "idle") =>
              outcome[p].error # "TypeError"

\* C6: between calls the caller holds no open connection.
C6_ConnectionsReleased ==
    \A p \in Procs : pc[p] = "idle" => open[p] = 0

\* The arguments the specification calls an invalid configuration.
InvalidConfiguration(a) ==
    \/ a.op = "search" /\ (a.top_k <= 0 \/ a.dimensions <= 0)
    \/ a.op = "process_text_file"
         /\ (a.overlap >= a.chunk_size \/ a.chunk_size <= 0)

\* C7: a call with an invalid configuration sends nothing to the gateway
\* and no statement to the store, and ends by raising ConfigurationError.
C7_InvalidConfigurationRejected ==
    \A p \in Procs :
        InvalidConfiguration(args[p]) =>
            /\ trace[p].gateway = 0
            /\ trace[p].stmts = 0
            /\ Ended(p) => (outcome[p].status = "raised"
                            /\ outcome[p].error = "ConfigurationError")

\* Two callers have both returned from a truncating process_text_file.
BothReturned(p, q) ==
    /\ p # q
    /\ IsIngest(p) /\ args[p].truncate_table /\ HasReturned(p)
    /\ IsIngest(q) /\ args[q].truncate_table /\ HasReturned(q)

\* C8: when two callers have both returned from process_text_file with
\* truncate_table = TRUE, the table holds the rows of one of the two
\* documents or of both, one document after the other; the second case is
\* the corrupted collection two interleaved calls can leave behind.
C8_InterleavedResets ==
    \A p, q \in Procs :
        BothReturned(p, q) =>
            LET Rp == DocumentRows(args[p], trace[p].xid)
                Rq == DocumentRows(args[q], trace[q].xid)
            IN  store \in {Rp, Rq, Rp \o Rq, Rq \o Rp}

C8_Witness ==
    \E p, q \in Procs :
        /\ BothReturned(p, q)
        /\ args[p].file_name # args[q].file_name
        /\ store = DocumentRows(args[p], trace[p].xid)
                     \o DocumentRows(args[q], trace[q].xid)

\* What one step may do to the table.
FrameStep ==
    /\ store' = store \/ store' = <<>> \/ IsPrefix(store, store')
    /\ \A p \in Procs :
          /\ (args[p].op \in {"search", "console"} /\ pc[p] # "idle")
                => store' = store
          /\ (IsIngest(p) /\ ~args[p].truncate_table /\ pc[p] # "idle")
                => IsPrefix(store, store')
          /\ (pc[p] # "idle" /\ outcome'[p].status = "raised")
                => store' = store
    /\ store' # store =>
          \E p \in Procs :
              \/ pc[p] = "truncate" /\ args[p].truncate_table /\ store' = <<>>
              \/ pc[p] = "insert" /\ outcome'[p].status = "returned"

\* C9: rows are only ever appended by the commit of process_text_file or
\* removed all together by the truncate of a call with truncate_table =
\* TRUE: every step leaves the table as it is, empties it, or extends it;
\* no step of search changes it, and a call with truncate_table = FALSE only
\* extends it.
C9_Frame == [][FrameStep]_vars

\* A call with truncate_table = FALSE has appended its rows after the rows
\* that were there.
C9_Witness ==
    \E p \in Procs :
        /\ IsIngest(p) /\ ~args[p].truncate_table /\ HasReturned(p)
        /\ pre[p] # <<>>
        /\ store = pre[p] \o DocumentRows(args[p], trace[p].xid)

\* C10: the truncate is committed before the file is read: from then on
\* the table is empty whatever happens to the call.  A call that raises
\* after its truncate leaves the table empty, a call that raises without
\* having truncated leaves the table as it was, and in neither case is a
\* row of the call in the table.
C10_FailedIngest ==
    \A p \in Procs :
        IsIngest(p) =>
            /\ (pc[p] \in {"read", "chunk", "embed", "connect", "insert"}
                  /\ args[p].truncate_table)
                    => (trace[p].truncated /\ store = <<>>)
            /\ HasRaised(p) =>
                  /\ trace[p].truncated => store = <<>>
                  /\ ~trace[p].truncated => store = pre[p]
                  /\ ~args[p].truncate_table => store = pre[p]
                  /\ trace[p].xid # 0 => RowsBy(store, trace[p].xid) = {}

\* The call emptied a table that had rows, sent some of its INSERTs and
\* then raised.
C10_Witness ==
    \E p \in Procs :
        /\ IsIngest(p) /\ HasRaised(p)
        /\ trace[p].truncated /\ pre[p] # <<>>
        /\ trace[p].inserts > 0
        /\ store = <<>>

====
